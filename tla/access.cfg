SPECIFICATION FairSpec
CONSTANTS
    Namespaces = {"n"}
    None = None
    MaxOps = 3
    MaxPods = 1
    MaxFaults = 1
INVARIANTS TypeOK NoneForgotten
PROPERTIES ProvisionedPromptly Provisioned RetriesEnd
CHECK_DEADLOCK FALSE
