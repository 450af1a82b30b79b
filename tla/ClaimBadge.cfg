SPECIFICATION Spec
INVARIANT BadgeIsTheDock
CHECK_DEADLOCK FALSE
