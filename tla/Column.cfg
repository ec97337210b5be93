SPECIFICATION Spec
CONSTANTS
  Buffer = 40
  Versions <- MCVersions
  Declarations <- MCDeclarations
  CustomTypes <- IntIsBig
  Found <- MCFound
  Number <- MCNumber
INVARIANTS
  WrittenIsFound
  SameIsStored
  TextIsRarelyRefused
