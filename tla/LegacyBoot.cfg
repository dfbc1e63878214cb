\* Manager::new fails on a UEFI machine without an ESP, and the program stops.
SPECIFICATION MCSpec
CONSTANTS
    esp = esp
    usb = usb
    xboot = xboot
    NoDevice = NoDevice
    RootFs = RootFs
    NoPoint = NoPoint
    MaxMounts = 3
    MaxChanges = 3
    Devices <- MCDevices
    Points <- MCPoints
    Nested <- MCNested
    Machines <- MCMachines
    Layouts <- LegacyEsp
INVARIANTS
    Delivered
CHECK_DEADLOCK FALSE
