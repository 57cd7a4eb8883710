\* Two processes, three batches, two deaths and two power losses.
CONSTANTS
  Processes = {p1, p2}
  Batches = {b1, b2, b3}
  Appends = {b1, b2}
  Anchor = Anchor
  Nobody = Nobody
  Parts = 3
  MaxDeaths = 2
  MaxLosses = 2
SPECIFICATION Spec
SYMMETRY MCSymmetry
INVARIANTS TypeOK AlwaysDecodes OwnsItsPosition
PROPERTIES AbstractSpec
CHECK_DEADLOCK FALSE
