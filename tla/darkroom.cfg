SPECIFICATION Spec
CONSTANTS
    Keys <- MCKeys
    Groups <- MCGroups
    Limits <- MCLimits
    OWidth = 60
    OHeight = 40
    MinCrop = 10
    None = None
    Unknown = Unknown
    v1 = v1
    v2 = v2
    Versions = {v1, v2}
    Raw <- MCRaw
    Window <- MCWindow
    Zooms <- MCZooms
    Aspects <- MCAspects
    UserSliders = {"expose", "umaskr", "cropl"}
    UserLayerSliders = {"saturation"}
    UserCrop = {"Left", "Top", "BR"}
    Photos <- MCPhotos
    Copied <- MCCopied
    MaxLayers = 3
    Hasty = {}
    MaxSteps = 2
INVARIANTS EveryoneKnowsTheDatabase PictureIsAsStored LayersStacked
PROPERTY CropStaysInside
CHECK_DEADLOCK FALSE
