SPECIFICATION FairSpec
CONSTANTS
    a1 = a1  a2 = a2
    Agents = {a1, a2}
    None = None
    Sizes <- Few
    Profiles = {"none", "side-by-side"}
    MaxEvents = 5
    MaxFaults = 1
INVARIANTS TypeOK
PROPERTIES OnlyF8ChoosesWhenLive ReturnsWhole Settles
