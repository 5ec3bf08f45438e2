SPECIFICATION Spec
CONSTANTS
  Verticals <- MCVerticals
  StartIndexV <- MCStartIndexV
  FragmentIndices <- MCFragmentIndices
  FragmentAutoSlide <- MCFragmentAutoSlide
  SlideAutoSlide <- MCSlideAutoSlide
  SlideId <- MCSlideId
  Slug <- MCSlug
  DataState <- MCDataState
  AutoplaySlides = {}
  IframeSlides = {}
  VideoBackgrounds = {}
  Config <- MCConfig
  Plugins = {"notes", "multiplex"}
  Places <- MCPlaces
  Keys = {"next", "prev", "pause", "escape"}
  Prompt = TRUE
  MaxMoves = 2
  MaxRemote = 1
INVARIANTS TypeOK CurrentIsSame UpcomingIsNext AudienceFollows
PROPERTIES SetUpOnce WindowsAgree
CHECK_DEADLOCK FALSE
