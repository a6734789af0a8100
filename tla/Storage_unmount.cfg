SPECIFICATION Spec
CONSTANTS
  Drives = {d1, d2}
  Holders = {h1}
  Paths = {a, b}
  Tmps = {t1}
  TmpNames = {}
  Dev = Dev
  None = None
PROPERTIES TakenIsUnmounted
