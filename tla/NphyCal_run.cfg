\* A plain channel and one that needs spur avoidance, both revisions, and a
\* loop that wanders between two indices.
SPECIFICATION FairSpec
CONSTANTS
  Revs = {4, 8}
  Channels = {6, 13}
  Spur = {13}
  NoIr = {13}
  Powers = {12, 15}
  Loop = {1, 2}
INVARIANTS
  Balanced
  TransmitterPutBack
  SavedTogether
  RegistersPutBack
PROPERTIES
  PendingRuns
