SPECIFICATION FairSpec
CONSTANTS
  Entries = {1, 2, 3, 4, 5, 6, 7, 8, 10}
  Numbers = {1, 5}
  Users = {TRUE, FALSE}
  InputMayEnd = TRUE
INVARIANTS TypeOK AnswersReachTheirQuestion
PROPERTIES AnswersAreRead NoRoomAfterFailure
