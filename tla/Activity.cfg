SPECIFICATION Spec
CONSTANTS
  MaxPlayers = 2
INVARIANTS InfoIsNullOrValid
CHECK_DEADLOCK FALSE
