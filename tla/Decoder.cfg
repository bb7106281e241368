SPECIFICATION Spec
CONSTANT Inputs <- Literals
INVARIANT OutputFits
INVARIANT DecodesLiteral
INVARIANT BadOffsetIsFirst
CHECK_DEADLOCK FALSE
