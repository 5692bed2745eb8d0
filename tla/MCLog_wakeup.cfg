SPECIFICATION Spec
CONSTANTS
  Thread = {t1}
  Command = {c1}
  MaxAppends = 1
INVARIANT NotifyWakesFlusher
