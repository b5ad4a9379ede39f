\* Five pages: blocks of up to five pages, chains of up to five blocks.
CONSTANT PageCount = 5
SPECIFICATION Spec
INVARIANT Conserved
PROPERTY ImplementsPromise
CHECK_DEADLOCK FALSE
