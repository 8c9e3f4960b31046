CONSTANT Fragments <- MCFragments
SPECIFICATION Spec
INVARIANT Decides
CHECK_DEADLOCK FALSE
