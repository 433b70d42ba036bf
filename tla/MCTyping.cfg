\* The window on X11 and on Windows, and the gateway with two pages.
SPECIFICATION TypingSpec
CONSTANTS
  ls = ls  rs = rs  k = k  sq = sq
  b1 = b1  b2 = b2
  lower = lower  upper = upper  foreign = foreign
  Codes = {ls, rs, k, sq}
  LeftShift = ls
  ShiftKeys = {ls, rs}
  CharMap <- MCCharMap
  SysRq = sq
  Siblings <- MCSiblings
  Browsers = {b1, b2}
  JsToCode <- MCJsToCode
  Buttons <- MCButtons
  Modifiers <- MCModifiers
  Characters = {lower, upper, foreign}
  Texts <- MCTexts
  MaxHandlers = 2
  Fronts = {"x11", "win32", "web"}
  MaxMoves <- MCMoves
  MaxBehind = 2
ACTION_CONSTRAINT UsualHands
INVARIANTS TypingTypeOK DeviceFollows TextInOrder
PROPERTIES TypedAsStruck EveryStrikeIsTyped LiftedIsLifted PagesGone
CHECK_DEADLOCK FALSE
