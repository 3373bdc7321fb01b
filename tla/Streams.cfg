SPECIFICATION StreamsSpec
CONSTANTS
    MAX_FRAME_BYTES = 3
    MaxCalls = 3
    READ = 4
    Schemas <- McSchemas
    ShellLines <- McLines
    Subscriber = {s1}
    SUBSCRIBER_CAPACITY = 1
    MaxLines = 3
    MaxReconnects = 1
INVARIANTS
    AnswersFollowRequests
    CallsTellTheTruth
    SubscribersSeeTheStream
CHECK_DEADLOCK FALSE
