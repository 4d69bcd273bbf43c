SPECIFICATION Spec
CONSTANTS
    Texts <- ShortTexts
    Patterns <- ShortPatterns
    Costs <- CostTexts
    Times <- SmallTimes
    Wishes <- SomeWishes
    Heads <- SomeHeads
    FrameLists <- ThreeFrames
    Cuts <- FewCuts
    JavaArgs <- SomeArgs
    MapEntries <- SomeEntries
    Headers <- SomeHeaders
    Calls <- SomeCalls
    Documents <- SomeDocuments
    MongoMessages <- SomeMongoMessages
    Packets <- SomePackets
INVARIANTS
    WildcardRight
    CostAsDocumented
    UsageRead
    DetectedExactly
    CreatedIsHandled
    HeadersFound
    JavaValuesRight
    AttachmentsFound
    DubboFlags
    DubboNames
    BsonRight
    MongoRead
    MySQLShown
CHECK_DEADLOCK FALSE
