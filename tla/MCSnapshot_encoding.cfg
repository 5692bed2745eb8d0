SPECIFICATION Spec
CONSTANTS
  Key <- Keys
  Value <- Values
  NoValue = NoValue
  Size <- Sizes
  SizeWidth = 8
  Threshold = 28
  Wrap = 100
  MaxInput = 46
  MaxKeys = 4
INVARIANT TypeOK
INVARIANT ReadsBackBelowWrap
INVARIANT CompressionIsWorthIt
INVARIANT NeverMistaken
INVARIANT ReadsAgree
INVARIANT ListsAlign
