SPECIFICATION FairSpec
CONSTANTS
  Senders = {1, 2}
  Modes = {0, 1, 2, 3, 4, 5}
  CtrlC = TRUE
INVARIANTS
  TypeOK
  AnswersAreDue
PROPERTIES
  CalmRequestIsObeyed
\* mode 5 ends the catcher, and a sender may wait for ever
CHECK_DEADLOCK FALSE
