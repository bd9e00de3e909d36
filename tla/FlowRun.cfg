CONSTANTS
    Subscribers = {sig, stranger}
    Readers = {sig}
    Holders = {sig}
    Waiters = {w}
    ChunkSize = 2
    MaxEvents = 2
SPECIFICATION FairSpec
INVARIANTS
  SubscribersSeeTheRun
  FinishIsLastRow
PROPERTIES
  ResultIsFinal
  ImplementsRunLog
  WaitersAnswered
CHECK_DEADLOCK FALSE
