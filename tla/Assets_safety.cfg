SPECIFICATION Spec
CONSTANTS
  Langs = {1, 2}
  translations <- MCTranslations
  Pages <- MCPages
  Others <- MCOthers
  Tail_ <- MCTail
  REPLACE_SIZE = 2
  UPTIME_CH = "u"
  VERSION_CH = "v"
INVARIANTS
  InBounds
  Translated
  MarksFound
