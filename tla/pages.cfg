CONSTANT MaxWrites = 2
SPECIFICATION Spec
INVARIANTS
  TypeOK
  FormIsOfItsAsset
  ListsFreshWhenQuiet
  EditsReachTheirRow
  PlansReachTheirRow
  DraftsAreAskedFor
  StoredOnce
  SaveChangesNothingElse
  ChosenWindowStays
  OpensOnTheBillDue
  BanksAreOfTheCountry
  NothingOverpaid
  LinkedAmountsAgree
  SelectedAreListed
  SavedAsPreviewed
  HidesAreAsked
  AnswerIsShown
  AppliedOnce
  PreviewIsLastAsked
  WritesReachTheirWorkspace
PROPERTIES
  StepsGoTheirWay
CHECK_DEADLOCK FALSE
