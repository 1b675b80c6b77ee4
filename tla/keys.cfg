SPECIFICATION KeysSpec
CONSTANTS
  MaxGates = 2
  BoardCap = 2
INVARIANTS
  SelectionReadable
PROPERTIES
  DecidesWhatIsShown
