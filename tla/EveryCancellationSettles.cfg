SPECIFICATION FairSpec
CONSTANTS
  MaxExecutions = 2
  MaxGeneration = 2
PROPERTIES
  EveryCancellationSettles
