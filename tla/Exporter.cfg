SPECIFICATION Spec
CONSTANT Operators <- MCOperators
INVARIANTS TypeOK StartsSound
PROPERTY Stops
\* The process ends.
CHECK_DEADLOCK FALSE
