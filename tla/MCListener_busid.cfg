SPECIFICATION ListenerSpec
CONSTANTS
    dev1 = dev1
    dev2 = dev2
    dev3 = dev3
    NoDevice = NoDevice
    Devices = {dev1, dev2, dev3}
    Openers = {}
    MaxDevices = 3
    MaxPlugs = 3
    Applications <- Serial
INVARIANTS
    BusidsUnique
CHECK_DEADLOCK FALSE
