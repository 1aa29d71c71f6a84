SPECIFICATION MCSpec
CONSTANTS
  s1 = s1
  s2 = s2
  s3 = s3
  RequestSize = 3
  ReplySize = 3
  MaxSent = 4
  EchoFlows = 2
  BurstFlows = 1
  EchoRetries = 1
  BurstRetries = 2
  Datagrams = 3
  PollDeadline = 1
  SocketRoom = 1
  MaxInbox = 2
  DownloadBytes = 4
  UploadBytes = 5
  HttpRequestSize = 2
  BufferBytes = 3
  HeaderLimit = 4
  SizeLimit = 16
  HeaderSizes = {2, 4, 6}
  BodySizes = {0, 1, 2, 3, 4, 5}
  EchoDigit = 2
  EchoTokens = {0, 2}
  MalformedDigit = 4
  MalformedTokens = {0, 1, 2, 3, 4, 5, 6, 7, 8, 9, 10, 11, 12, 13, 14, 15}
  PacketTimeout = 1
  MaxPackets = 2
  Width = 7
  Second = 15
  Frequency = 4
  MaxTick = 9
  MaxEchoes = 2
  MaxSubmissions = 2
INVARIANTS
  TypesOK
  SuccessIsEarned
  ReportsAreReal
PROPERTIES
  StepsAreAllowed
  EndsReleased
CHECK_DEADLOCK FALSE
