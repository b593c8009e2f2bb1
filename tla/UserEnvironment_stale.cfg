CONSTANTS
  Agents = {a1}
  Literals = {p}
  Workers = {w1}
  Methods = {"addPercept", "removePercept"}
SPECIFICATION Spec
INVARIANT UptodateIsLatest
