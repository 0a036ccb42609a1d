SPECIFICATION Spec
CONSTANTS
    Luids = {l1, l2}
    IDms = {f1, f2}
    MaxUnread = 2
    NoFile = NoFile
    NotBcd = NotBcd
    Short = Short
    Partial = Partial
    Blank = Blank
INVARIANTS
    PortServed
    ReadsFromPolledCard
PROPERTIES
    SameCardNextPoll
SYMMETRY Cards
