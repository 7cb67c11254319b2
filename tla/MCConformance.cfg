SPECIFICATION Spec
CONSTANTS
  Primary = Primary
  Sibling = Sibling
  Actions = {Primary, Sibling}
  NoParent = NoParent
  FreePlans <- MCFreePlans
  Declared <- MCDeclared
  MaxRuns = 3
INVARIANTS
  TypeOK
  ScenariosPass
PROPERTIES
  ContractKept
