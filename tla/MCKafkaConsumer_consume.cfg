SPECIFICATION FairSpec
CONSTANTS
  c1 = c1
  c2 = c2
  night = night
  Consumer = {c1, c2}
  Partition = {night}
  TopicDay <- MCTopicDay
  None = None
  FirstDay = 1
  LastDay = 2
  StartDay = 1
  Window = 1
  MaxInQueue = 1
  CheckEvery = 2
  MaxLog <- MCMaxLog
  MaxFaults = 1
CHECK_DEADLOCK FALSE
INVARIANTS NothingSkipped QueueBounded
PROPERTIES FollowsClock 
