SPECIFICATION Spec
CONSTANTS
  g1 = g1  g2 = g2  g3 = g3  s1 = s1  s2 = s2
  Groups <- MCGroups
  SlugOf <- MCSlugOf
  Sections = {1}
  Pages <- MCPages
  Plans = {p1}
  None = None
  MaxChapters = 3
  MaxParagraphs = 2
  MaxRuns = 3
INVARIANTS TypeOK SeedingHolds BooksStayApart SelectionsStand
PROPERTY RepairsAreWhole
CHECK_DEADLOCK FALSE
