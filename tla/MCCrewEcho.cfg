CONSTANTS
  Space = 262144
  ListenIua = "IOP"
  Width = 20
  BCEs = {4, 5}
  Cells = 3
  Blank = 32
  NoKey = 255
  Key = {0, 1}
  Glyph <- MCGlyph
  CellSpace = 16
  MaxKeys = 3
SPECIFICATION FairSpec
INVARIANTS TypeOK KeysInOrder NoErrors EchoRight
PROPERTY EchoComplete
