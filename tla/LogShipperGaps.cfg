\* One source with a window of two lines.
CONSTANTS
  Sources = {s1}
  Unreachable = {}
  Texts = {a, b}
  None = None
  Torn = Torn
  TailLines = 2
  MaxLines = 3
  MaxCrashes = 0
SPECIFICATION Spec
INVARIANT NoGaps
