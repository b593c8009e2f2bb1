CONSTANTS
  Agents = {a1}
  Literals = {p}
  Workers = {w1, w2}
  Methods = {"addPercept", "removePercept", "removePerceptsByUnif", "clearPercepts",
             "addAgPercept", "removeAgPercept", "removeAgPerceptsByUnif",
             "clearAgPercepts", "clearAllPercepts"}
SPECIFICATION Spec
SYMMETRY ThreadAndAgentSymmetry
INVARIANTS TypeOK NothingMissed StaleOnlyIfOvertaken
