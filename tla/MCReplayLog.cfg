\* Sessions of up to nine calls with every kind of text; calls out of order until three were answered.
SPECIFICATION Spec
CONSTANTS
  Recordings <- MCRecordings
  TextSize = 10
  MaxMsgs = 2
  MaxCalls = 3
INVARIANTS AnswersInOrder ReplayFaithful
CHECK_DEADLOCK FALSE
