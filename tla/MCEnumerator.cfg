\* Batches and raw lists: every interleaving of enumerate and free calls
\* over three blocks and four lists, with malloc failing or not.  A failed
\* malloc ends the process, which then takes no further step.
CONSTANTS
  b1 = b1  b2 = b2  b3 = b3  l1 = l1  l2 = l2  l3 = l3  l4 = l4
  Blocks <- MCBlocks
  Lists <- MCLists
  MallocResults <- MCMallocResults
SPECIFICATION Spec

INVARIANT CoupledLifetime
CHECK_DEADLOCK FALSE
