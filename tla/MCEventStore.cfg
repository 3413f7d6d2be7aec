SPECIFICATION Spec
CONSTANTS
  Events <- MCEvents
  MaxTime = 2
INVARIANTS SlotUnique NothingLost DeletionHonoured HiddenJustified GiftWrapsDurable Converged
PROPERTY SavedIsVisible
