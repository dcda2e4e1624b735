SPECIFICATION Spec
CONSTANTS
    IdMax = 5
    MaxRanges = 5
    MaxAssignments = 3
    MaxEdits = 2
    FirstRanges <- SmallRanges
    Policies <- SomePolicies
    Details <- SomeDetails
    NewAssignments <- SomeAssignments
INVARIANTS
    PublishedIsPartition
    PublishedIdsAreAssignable
    SoundDraftsPass
