SPECIFICATION TrialSpec
CONSTANTS
    Trials <- AllTrials
    Texts = {}
    Patterns = {}
    Costs = {}
    Times = {}
    Wishes = {}
    Heads = {}
    FrameLists = {}
    Cuts = {}
    JavaArgs = {}
    MapEntries = {}
    Headers = {}
    Calls = {}
    Documents = {}
    MongoMessages = {}
    Packets = {}
INVARIANT
    SomeClaimHolds
CHECK_DEADLOCK FALSE
