SPECIFICATION Spec
CONSTANTS
  Zero = Zero
  Left = Left
  Both = Both
  NoState = NoState
  State = {Zero, Left, Both}
  N = 3
  StoresBusy = TRUE
  PushesDuringOp = 1
PROPERTIES
  AsideIsPushed
  ImplementsLossyQueue
