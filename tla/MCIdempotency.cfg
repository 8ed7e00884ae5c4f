CONSTANTS
  Requests = {1, 2, 3, 4}
  Keys = {"key"}
  Hashes = {"hash", "other"}
  KeyOf <- MCKeyOf
  HashOf <- MCHashOf
  NoHash = NoHash
  NoRequest = NoRequest
  MaxCrashes = 1
SPECIFICATION Spec
INVARIANTS
  AtMostOnce
  SameAnswer
  AnswerIsTrue
CHECK_DEADLOCK FALSE
