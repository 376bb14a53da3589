SPECIFICATION Spec
CONSTANTS
  Invocations = {i1, i2}
  OldTokens = {old}
  n1 = n1
  old = old
  Names = {n1, n2}
  EmptyName = EmptyName
  EmptyToken = EmptyToken
  NoName = NoName
  NoHeader = NoHeader
  InitialFiles <- Files
INVARIANT AddedTokenWorks
