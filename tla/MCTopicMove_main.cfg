SPECIFICATION FairSpec
CONSTANTS
  Groups = {"work", "home", "club"}
  Home = "work"
  Operators = {"o1", "o2"}
  MaxKey = 4
  Setups <- MCSetups
INVARIANTS HomeKept KeptApart ResultsTrue EpisodeFollows
PROPERTY EverythingSettles
CHECK_DEADLOCK FALSE
