CONSTANTS
  Bits32 = 4
  Bits64 = 8
  Prec32 = 2
  Prec64 = 6
  Args <- MCArgs

SPECIFICATION ASpec

INVARIANTS
  IntegersAgree
  OldIntegersAgree
  TruncationsAgree
  OldTruncationsAgree
  FloatsAgree
