SPECIFICATION Spec
CONSTANTS
    Luids = {l1}
    IDms = {f1}
    MaxUnread = 1
    NoFile = NoFile
    NotBcd = NotBcd
    Short = Short
    Partial = Partial
    Blank = Blank
PROPERTY
    GeneratesOnlyMissing
