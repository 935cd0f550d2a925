SPECIFICATION Spec
CONSTANTS
  Team <- MCTeam
  NameOf <- MCNameOf
  TieToVisitor <- MCTieToVisitor
  Groups <- MCGroups
  CrossGroup <- MCCrossGroup
  Goals <- MCGoals
  IntSize = 64
INVARIANTS BooksBalance BetterIsStrictWeakOrder RankingIsFair DocumentsCoherent ListingMatchesTables
