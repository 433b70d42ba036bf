\* The page of the gateway.
SPECIFICATION TypingSpec
CONSTANTS
  ls = ls  rs = rs  k = k  sq = sq
  b1 = b1  b2 = b2
  lower = lower  upper = upper  foreign = foreign
  Codes = {ls, rs, k, sq}
  LeftShift = ls
  ShiftKeys = {ls, rs}
  CharMap <- MCCharMap
  SysRq = sq
  Siblings <- MCSiblings
  Browsers = {b1, b2}
  JsToCode <- MCJsToCode
  Buttons <- MCButtons
  Modifiers <- MCModifiers
  Characters = {lower, upper, foreign}
  Texts <- MCTexts
  MaxHandlers = 2
  Fronts = {"web"}
  MaxMoves <- MCMoves
  MaxBehind = 2

CHECK_DEADLOCK FALSE
PROPERTY StickyApplies
