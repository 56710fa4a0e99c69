SPECIFICATION Spec
CONSTANTS
    tab = tab
    button = button
    branding = branding
    strip = strip
    stripSlashed = stripSlashed
    Files = {tab, button, strip, branding}
    Names = {tab, button, strip, stripSlashed, branding}
    Slashed <- OneAt
    Excluded = {branding}
    Hunks = {h1}
    NoPatch = NoPatch
    BrokenLine = BrokenLine
INVARIANTS
    PatchSetInv
    UpdateRecordsTree
    RecordedChangesReturn
