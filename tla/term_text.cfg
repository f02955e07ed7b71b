\* Wrapping, scrolling, erasing and clearing.
CONSTANTS
  Height = 2
  Width = 3
  Nul = nul
  Space = space
  Newline = newline
  Letters = {0, 1}
  Base = 2
  BufferSize = 2
  MaxNumber = 3
  NewlineAfterWrap = FALSE
  EraseAfterScroll = FALSE
  MaxText = 8
SPECIFICATION Spec
INVARIANTS
  TypeOK
  OnScreen
  DigitsFit
  ScreenShowsText
  CursorShowsEnd
