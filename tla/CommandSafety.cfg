SPECIFICATION Spec
CONSTANTS
  Devs = {d1, d2}
  Socks = {0, 1}
  MaxStarts = 2
  MaxPosts = 2
  MaxCrashes = 1
SYMMETRY DevSymmetry
INVARIANTS TypeOK OneOwner AnswersMatch
PROPERTIES ImplementsMailbox
