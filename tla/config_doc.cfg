SPECIFICATION LSpec
CONSTANTS
    Configs <- MCConfigs
    Implements <- MCImplements
    Registry <- MCTypes
    SinglePicker = "single-profile-picker"
    DefaultPicker = "default max-score"
    Nil = Nil
CHECK_DEADLOCK FALSE
INVARIANTS
    LoadedConfigHasPicker
    ProfilesKeepSelectors
