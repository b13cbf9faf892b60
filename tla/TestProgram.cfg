CONSTANTS
  Owner = o
  Msgs = {m1}
  NoMsg = noMsg
  Texts <- MCTexts
  Documents <- MCDocuments
  NoDocument = noDocument
  NoLogger = noLogger
  Hosts = {"broker:1883"}
  Arguments = {3, 5, 6, 7, 8}
  PollRounds = 1

SPECIFICATION FairSpec
INVARIANTS
  TypeOK
  AbortedOnlyIfLost
PROPERTIES
  LoadsMean
  DroppedOnlyIfLost
  ProgramEnds

\* The program ends.
CHECK_DEADLOCK FALSE
