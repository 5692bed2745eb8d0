SPECIFICATION Editing
CONSTANTS
  Letter = {"a"}
  Quote = "q"
  Space = "s"
  MaxLen = 9
INVARIANT ReplayRepeatsTheChange
INVARIANT OnlyQuotesRemoved
