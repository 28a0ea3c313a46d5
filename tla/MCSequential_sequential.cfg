SPECIFICATION SeqSpec
CONSTANTS
  Raw <- MCRaw
  Header <- MCHeader
  ParseAddress <- MCParseAddress
  DecodeHeader <- MCDecodeHeader
  Html <- MCHtml
  HtmlToText <- MCHtmlToText
  PlainText <- MCPlain
  MessageId = {"<id@x>"}
  NoId = NoId
  NoEmail = NoEmail
  Word <- MCWord
  Customer = {"ann@x"}
  Limit = 2
  Tables <- MCTables
  NoAnswer = NoAnswer
  Gold <- MCGold
  Prediction <- MCPrediction
  Stale <- MCStale
  Target = {50, 90}
  Unit = 100
  Slack = 10
  Absent = Absent
  Torn = Torn
INVARIANTS
  BodyIsBest
  SameKeyOverHttp
  SameOverMcp
  SimilarAreNewest
  RecommendedIsLowest
  ReportAddsUp
PROPERTY RecordingIsAllOrNothing
CHECK_DEADLOCK FALSE
