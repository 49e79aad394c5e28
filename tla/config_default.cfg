SPECIFICATION ConfigSpec
CONSTANTS
  Keys = {"A", "B", "C"}
  Raws <- MCRaws
  Shapes <- MCShapes
INVARIANT EmptyTakesDefault
