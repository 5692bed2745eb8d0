SPECIFICATION Editing
CONSTANTS
  Letter = {"a"}
  Quote = "q"
  Space = "s"
  MaxLen = 9
INVARIANT BlanksAreRefused
INVARIANT TokensAreGroups
INVARIANT KeysReadBack
INVARIANT ReplayLogsNothing
