\* Three overlapping requests, one or two of them reusing the id of another call.
CONSTANTS
  Slots = {s1, s2, s3}
  Keys = {k1}
  Fingerprints = {f1, f2}
  FAILED_RETRY_CAP = 3
SPECIFICATION FairSpec
INVARIANTS
  TypeOK
  OneHandlerPerKey
  AnswersAgree
  InProgressIsOwned
PROPERTIES
  ImplementsCell
  EveryRequestAnswered
