SPECIFICATION FairSpec
CONSTANTS
  Threads = {main, recv}
  Main = main
  Messages = {Login, Chat}
  Early = TRUE
  MaxCalls = 2
  main = main
  recv = recv
  Login = Login
  Chat = Chat
INVARIANTS TypeOK RunsOnce MessagesReadyInMain
PROPERTIES ReadyOnReturn CallsReturn
