SPECIFICATION Spec
CONSTANTS
    Scripts <- MixedScripts
    MaxArgs = 3
    MaxStarts = 4
INVARIANTS OnlyCurrentOpen FreshBindings ArgsAligned
PROPERTY StartsInOrder

