SPECIFICATION Spec
SYMMETRY MCSymmetry
CONSTANTS
  NumEnumerated = 3
  Names = {hardware, software, generic}
  Versions <- MCVersions
  Extensions = {"EFX"}
  MaxFilters = 2
  MaxPastEnd = 2
INVARIANT DefaultInList
