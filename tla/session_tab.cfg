SPECIFICATION Spec
CONSTANTS
  NoUser = NoUser
  Users = {ana}
  MaxWorkspace = 2
  Joined = {1}
  ModuleOn = {2}
  OtherTab = {"login", "logout"}
  MaxCalls = 2
INVARIANTS
  TypeOK
  RowsOfTheActiveWorkspace
  NoVerdictBeforeTheList
PROPERTIES
  RequestsCarryTheActiveWorkspace
  SignInSettles
  ImplementsScope
