SPECIFICATION FairSpec
CONSTANTS
    MuteControls = TRUE
    TabWidths = {60, 72, 120}
    ButtonWidth = 16
    CloseWidth = 16
    MinCloseTab = 100
    Inset = 16
INVARIANTS
    ButtonInv
    ClickMeetsAudio
    ActiveTabCanBeMuted
PROPERTIES
    DataReachesButton
    IconGoes
