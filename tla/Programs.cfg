SPECIFICATION MCSpec
CONSTANTS
  MaxPoll = 3
  Programs = {"Send01", "TcpClient", "Boost_send"}
  Values = {"a", "b"}
  Books = {{}, {0, 1}, {1, 2}}
INVARIANTS
  SecondAfterFirst
  FramedReplyIsWhole
  ConvertersAgree
PROPERTIES
  TcMemory02Ends
  OneShotProgramsEnd
CHECK_DEADLOCK FALSE
