SPECIFICATION MCSpec
CONSTANTS
    a = a
    b = b
    adapter = adapter
    session = session
    traffic = traffic
    freshness = freshness
    Foreign = Foreign
    Nobody = Nobody
    Publishers <- MCPublishers
    Adapters <- MCAdapters
    Sessions <- MCSessions
    Runs <- MCRuns
    Freshness <- MCFreshness
INVARIANTS
    QueryTypeOK
    FailureLeavesNothing
    AnswerIsCited
    AcceptedIsAnswered
PROPERTIES
    UndisturbedRunIsPublished
    ImplementsContract
