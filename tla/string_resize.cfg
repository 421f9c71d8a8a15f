SPECIFICATION PSpec
CONSTANTS
  Value = {0, 1, 2}
  Zero = 0
  Unset = Unset
  MaxSize = 3
  String <- MCStrings
  AppendsToShrunk = TRUE
PROPERTIES
  AppendsEmptyStrings
