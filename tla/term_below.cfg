\* A newline right after the last cell of the screen.
CONSTANTS
  Height = 2
  Width = 3
  Nul = nul
  Space = space
  Newline = newline
  Letters = {0, 1}
  Base = 2
  BufferSize = 2
  MaxNumber = 3
  NewlineAfterWrap = TRUE
  EraseAfterScroll = FALSE
  MaxText = 8
SPECIFICATION Spec
INVARIANT
  OnScreen
