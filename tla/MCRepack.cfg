\* Kernel sizes around the block boundary, hash trees of one and two
\* blocks.  The verity tool always writes a hashstart= field.
CONSTANTS
  KernelSizes = {1, 4095, 4096, 4097, 8192}
  HashSizes = {4096, 8192}
  TableHashStarts = {0}
  NoHashStart = NoHashStart
SPECIFICATION Spec
INVARIANTS
  HashStartLocatesHashData
\* The program exits after signing or on the first error.
CHECK_DEADLOCK FALSE
