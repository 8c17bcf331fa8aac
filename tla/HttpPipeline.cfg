SPECIFICATION Spec
CONSTANTS
  Hooks = {"deboard-org", "update-pw"}
INVARIANTS
  TypeOK
  HandlersGuarded
  LoggedAsAnswered
  BodyWhole
