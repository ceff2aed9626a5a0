SPECIFICATION Spec
CONSTANTS
    ViewWidth = 4
    ViewHeight = 4
    MinSize = 2
    NoDrag <- MCNoDrag
    NoFit <- MCNoFit
    Photos <- MCPhotos
INVARIANTS FrameOnPhoto FitOrUser
PROPERTIES CropShowsFrame ShownTurnsRight
CHECK_DEADLOCK FALSE
