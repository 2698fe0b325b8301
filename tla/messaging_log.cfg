CONSTANTS
    ch1 = ch1
    ch2 = ch2
    Capacity <- MCCapacity
    Channels <- MCChannels
    MaxEvents <- MCMaxEvents
    Limit <- MCLimit
    MaxTime <- MCMaxTime
SPECIFICATION Spec
INVARIANT TypeOK
INVARIANT RecentEventsAreLatest
INVARIANT ViewShowsNewest
CHECK_DEADLOCK FALSE
