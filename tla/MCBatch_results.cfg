\* Three URLs, a caller that may leave, fair goroutines.
SPECIFICATION FairSpec
CONSTANT N = 3
INVARIANT
  SendsNeverBlock
  NeverStuck
PROPERTY
  Promise
  StepsRunOut
  BatchEnds
CHECK_DEADLOCK FALSE
