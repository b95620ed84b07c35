\* One request through the middlewares in any order, with all the ways to end it.
SPECIFICATION Spec
INVARIANTS EachEndedOnce CommittedAsTold NoSilentFailure ExpectedAnswered
CONSTANTS
  Stacks <- AllStacks
  MaxTransactions = 2
