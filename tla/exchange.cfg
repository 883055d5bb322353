\* Calls of every protocol over PRUDP: what is sent, handled and answered.
SPECIFICATION FairSpec
CONSTANTS
  Plans <- MCPlans
  Handle <- Dispatch
  Read <- ReadValue
  Write <- WriteValue
  MaxPayload = 61
  MaxReassembledSize = 400
  MaxDecompressedSize = 64
  FragmentIdSpace = 4
  SequenceSpace = 4
  FirstConnectionId = 100
  ChallengeSpace = 4
INVARIANTS
  HandlersGetWhatWasSent
  AnswersMatchCalls
  AnswersAreSentOnce
  StrangersGetNothing
  SequencesAreConsecutive
  LateAnswersKeepTheirSession
  AnswersAreUnbroken
  TicketsLetIn
PROPERTIES
  ProbesReachTheConnected
  RequestsAreAnswered
CHECK_DEADLOCK FALSE
