\* What NodeGetInfo reports and what the controller admits agree.
CONSTANTS
    MiB = 1
    MemorySizes <- MCMemorySizes
    MaxDisks = 9
    MaxPlaced = 66
    MaxOutside = 2
SPECIFICATION Spec
INVARIANT PlacedCanAttach
