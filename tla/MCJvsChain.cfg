SPECIFICATION Spec
CONSTANTS
    Length = 2
    Room = 2
    MaxCommands = 1
INVARIANT
    AddressesDistinct
