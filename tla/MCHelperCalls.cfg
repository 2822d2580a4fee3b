CONSTANTS
    Keys = {"a", "b"}
    Types = {"cron", "webhook", "start", "set", "unknown"}
    NodeTypes = {"cron", "webhook", "start", "set"}
    Starters = {"cron", "webhook", "start"}
    StartingNodes = {"start"}
    NodeNames = {"Start", "Set"}
    MaxNodes = 2
SPECIFICATION Spec
INVARIANTS CompactKeepsNonEmptyLeaves KeepAndRemovePartitionFields CanBeActivatedIffStarterNode ResponseHasRequestedData
