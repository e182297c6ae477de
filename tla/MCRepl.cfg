\* Lines of up to three characters and texts of up to four; two forms in an input.
CONSTANTS
  MayFail = {"lineedit"}
  RxIrq = TRUE
  HasRamfb = TRUE
  Key <- MCKey
  Capacity = 1
  INPUT_SIZE = 4
  ACCUM_SIZE = 5
  MAX_UNITS = 1
  MaxForms = 2
  EditorTexts <- MCEditorTexts
  TextLength = 4
SPECIFICATION FairSpec
INVARIANTS RoomForNul StopsOnlyItsForm NoFormLeftOver ReadersAgree FailureHasCause
PROPERTY WayBack
