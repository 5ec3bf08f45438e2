SPECIFICATION Spec
CONSTANTS
  Verticals <- MCVerticals
  StartIndexV <- MCStartIndexV
  FragmentIndices <- MCFragmentIndices
  FragmentAutoSlide <- MCFragmentAutoSlide
  SlideAutoSlide <- MCSlideAutoSlide
  SlideId <- MCSlideId
  Slug <- MCSlug
  DataState <- MCDataState
  AutoplaySlides = {}
  IframeSlides = {}
  VideoBackgrounds = {}
  Config <- MCConfig
  Plugins = {"notes"}
  Places <- MCPlaces
  Keys = {"next", "prev", "pause", "escape"}
  Prompt = FALSE
  MaxMoves = 2
  MaxRemote = 0
PROPERTY OnlySpeakerMoves
CHECK_DEADLOCK FALSE
