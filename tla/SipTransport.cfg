SPECIFICATION Spec
CONSTANTS
  InLegs = {in1}
  OutLegs = {out1}
  Sent = {text1}
  Received = {text2}
  in1 = in1
  out1 = out1
  text1 = text1
  text2 = text2
  Password = TRUE
  RegisterEnabled = TRUE
  Expiry = 8
  Transaction = 1
  MaxFaults = 2
  Traffics = {{in1, text2}, {out1, text1}, {"registration", text1}}
INVARIANTS
  TypeOK
  ShutdownIsTold
  AnswerTellsTheTruth
  SentMeansAccepted
  RegisteredIsBound
PROPERTIES
  EndedLegIsReleased
  ImplementsLegPromise
  RegistrationRecovers
CHECK_DEADLOCK FALSE
