CONSTANTS
    Values <- MCValues
    MaxLen = 2
SPECIFICATION Spec
INVARIANT WelfordExact
INVARIANT MergeExact
