SPECIFICATION Spec
CONSTANTS
    Disks <- MCDisks
    Natives <- MCNatives
    MaxLoads = 3
INVARIANTS
    PhasesInOrder
    ReplacedAreDown
    PublishedIsDriven
