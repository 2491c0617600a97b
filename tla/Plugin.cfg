\* Two automated parameters, two objects and two operations of the host and
\* OSC; three instances in two hosts, one port in the range, two boots.
SPECIFICATION FocusSpec
CONSTANTS
    Automated = {"PanAz", "Mute"}
    Objects = {0, 1}
    Tags = {"ObjMove", "ObjXYZ", "ObjDsp", "ObjMute"}
    FifoCap = 6
    RingCap = 2
    MaxOps = 2
    Damage = {{"PanAz", "Gain", "Order"}}
    LoadsWhileAudio = FALSE
    a = a
    b = b
    c = c
    Instances = {a, b, c}
    HostOf <- MCHostOf
    PortRange = 1
    Pids = {1, 2}
    MaxLaunches = 2
    MaxBoots = 2
    MaxStarts = 3
INVARIANTS
    EngineFollows
    FilesAgree
PROPERTIES
    Heard
    RegistryTrue
CHECK_DEADLOCK FALSE
