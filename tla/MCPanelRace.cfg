SPECIFICATION PanelSpec
CONSTANTS
  Callback = {c1}
  Main = Main
  MaxOpen = 2
  MaxMishaps = 0
PROPERTIES
  TimerSparesNewPanel
