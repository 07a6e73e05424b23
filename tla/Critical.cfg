SPECIFICATION Spec
CONSTANTS MaxDepth = 5
INVARIANTS TypeOK SectionsNotInterrupted InterruptsComeBack HandlerStaysMasked
