SPECIFICATION Spec
CONSTANTS
    Devices = {d1, d2}
    MaxMatches = 1
    QueueCap = 2
    MaxArrivals = 3
INVARIANT CountIsDevices
