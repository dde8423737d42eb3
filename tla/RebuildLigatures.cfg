\* Session::resize puts the theme back and not the ligature switch.
SPECIFICATION RebuildSpec
CONSTANTS
  Grids = {0, 1, 2, 3, 4, 6}
  Sizes = {1, 2, 3, 4}
  Widths = {2, 6, 12}
  MinSize = 2
  MaxSize = 3
  Capacity = 4
  Palettes = {"xterm", "theme"}
  Xterm = "xterm"
INVARIANT LigaturesHold
