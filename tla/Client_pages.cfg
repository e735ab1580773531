SPECIFICATION ClientSpec
CONSTANTS
  Calls = {d1, d2, d3}
  SlowFrames = TRUE
  Sends = {n1, n2}
  Texts = {"a", "b", "c"}
  TooLarge = {"c"}
  Passwords = {"p"}
INVARIANTS
  CardForPending
  NothingLeftBehind
  SecretKeptInOrder
  LinkIsForText
  NeverStuck
  ResultStays
PROPERTIES
  AnswersUser
