\* Bodies that leave one key of an entity out, against spec section 5.
SPECIFICATION Spec
INVARIANT AbsentFieldsDefault
CHECK_DEADLOCK FALSE
