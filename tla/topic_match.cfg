CONSTANTS
    Sessions = {s1}
    MaxQos = 1
SPECIFICATION Spec
INVARIANT MatchingIsExact
