SPECIFICATION Spec
CONSTANTS
  Verticals <- MCVerticals
  StartIndexV <- MCStartIndexV
  FragmentIndices <- MCFragmentIndices
  FragmentAutoSlide <- MCFragmentAutoSlide
  SlideAutoSlide <- MCSlideAutoSlide
  SlideId <- MCSlideId
  Slug <- MCSlug
  DataState <- MCDataState
  AutoplaySlides <- MCAutoplaySlides
  IframeSlides <- MCIframeSlides
  VideoBackgrounds <- MCVideoBackgrounds
  Configs <- MCConfigs
  Reconfigured <- MCReconfigured
  Addresses <- MCAddresses
  SyncScripts = {s1}
  AsyncScripts = {a1}
INVARIANTS TypeOK PastCountIsPlace FragmentsFollowPlace AutoSlideIsCued OnlyCurrentPlays
  ControlsAreFresh StackIsResumed RootHasState AddressIsPlace StartsWhenLoaded PrevUndoesNext AutoPlayAdvances
CHECK_DEADLOCK FALSE
