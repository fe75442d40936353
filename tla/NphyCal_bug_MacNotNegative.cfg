SPECIFICATION Spec
CONSTANTS
  Revs = {8}
  Channels = {6, 13}
  Spur = {13}
  NoIr = {13}
  Powers = {15}
  Loop = {1, 2}
INVARIANTS
  MacNotNegative
