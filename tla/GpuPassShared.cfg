SPECIFICATION Spec
CONSTANT Jobs <- SharedJob
INVARIANT QueriesAreRotated
