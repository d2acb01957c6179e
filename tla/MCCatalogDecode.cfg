\* Every catalog entity, decoded from every body that sends all its keys,
\* with each optional value null or set and each list empty or not.
SPECIFICATION Spec
INVARIANT WireFieldsCarried
\* A body is decoded once: the final state has no successor.
CHECK_DEADLOCK FALSE
