SPECIFICATION Spec
CONSTANT Operators <- SomeOperators
INVARIANT DrainsFirst
CHECK_DEADLOCK FALSE
