\* sddc_get_device_info with a malloc that may return NULL.
CONSTANTS
  b1 = b1  b2 = b2  b3 = b3  l1 = l1  l2 = l2  l3 = l3  l4 = l4
  Blocks <- MCBlocks
  Lists <- MCLists
  MallocResults <- MCMallocResults
SPECIFICATION Spec

INVARIANT EnumerateReturnsBatchOrError
CHECK_DEADLOCK FALSE
