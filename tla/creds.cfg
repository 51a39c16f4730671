CONSTANTS
  Users = {0, 1000, 1001, 1002}
  Owner = 1001
  Target = 1000
  Groups = {27, 100}
  Faults = {"sudo", "groupdel"}
SPECIFICATION Spec
INVARIANTS EndsDropped GroupsListed
PROPERTIES OnlySetuidFails ArmedWorks
