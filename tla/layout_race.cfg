SPECIFICATION Spec
CONSTANTS
    a1 = a1  a2 = a2
    Agents = {a1, a2}
    None = None
    Sizes <- Few
    Profiles = {"none", "side-by-side"}
    MaxEvents = 5
    MaxFaults = 0
PROPERTIES OnlyF8Chooses
SYMMETRY Same
