\* Manager::new fails on a UEFI machine without an ESP, and the program stops.
SPECIFICATION MCSpec
CONSTANTS
    esp = esp
    usb = usb
    xboot = xboot
    NoDevice = NoDevice
    RootFs = RootFs
    NoPoint = NoPoint
    MaxMounts = 5
    MaxChanges = 3
    Devices <- MCDevices
    Points <- MCPoints
    Nested <- MCNested
    Machines <- MCMachines
    Layouts <- Anywhere
INVARIANTS
    TypeOK
    DeliveredIfOrderly
    ImageKept
    Released
CHECK_DEADLOCK FALSE
