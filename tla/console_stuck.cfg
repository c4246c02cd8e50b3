SPECIFICATION Spec
CONSTANTS
  Entries = {1, 2, 3, 4, 5, 6, 7, 8, 10}
  Numbers = {1, 5}
  Users = {FALSE}
  InputMayEnd = FALSE
INVARIANTS UserChooses
