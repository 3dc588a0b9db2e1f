SPECIFICATION Spec
CONSTANTS
    good = good
    other = other
    gone = gone
    stump = stump
    old = old
    stays = stays
    File = {good, other, gone, stump, old, stays}
    Missing = {gone}
    Incomplete = {stump}
    Foreign = {old}
    Endless = {stays}
    Configs <- ConfigFiles
    Endpoint = {e1, e2}
    MaxLives = 3
INVARIANTS
    TypeOK
    CallsFindTheirLibrary
PROPERTIES
    LoadsAgain
    StoredMeansAsked
