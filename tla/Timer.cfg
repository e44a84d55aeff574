CONSTANTS
  Word = 16
  Debounce = 4
  MaxDelay = 6
  MaxPass = 2
SPECIFICATION Spec
INVARIANTS DirtyMatchesWork MaxDelayHolds
PROPERTIES DebounceHolds
