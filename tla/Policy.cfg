SPECIFICATION Spec
CONSTANTS
    known = known
    other = other
    listed = listed
    plain = plain
    blocked = blocked
    malformed = malformed
INVARIANTS NotLooserThanHook BlockedForAReason
CHECK_DEADLOCK FALSE
