\* Three downloads, also of one attachment, decoded in order or not.
SPECIFICATION Spec
CONSTANTS
  d1 = d1
  d2 = d2
  d3 = d3
  a1 = a1
  a2 = a2
  Downloads = {d1, d2, d3}
  Attachments = {a1, a2}
  MaxChunks = 2
  Decoding = 2
SYMMETRY Symmetry
INVARIANTS
  Intact
  EndedInOrder
CHECK_DEADLOCK FALSE
