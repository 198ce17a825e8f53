\* Two goroutines save the settings at the same time.
SPECIFICATION AdminSpec
CONSTANTS
    editor = editor
    prober = prober
    p1 = p1
    p2 = p2
    stranger = stranger
    port1 = port1
    port2 = port2
    elsewhere = elsewhere
    Editor = editor
    Probers = {prober}
    Savers = {editor, prober}
    ProxyIds = {p1, p2}
    Names = {"default", "host", "host-2"}
    DefaultName = "default"
    Failing = {}
    Edited = {"host"}
    MaxCalls = 3
    HostOf <- TwoPorts
    NamesOf <- HostNames
    Batches <- OneBatch
INVARIANTS FileLoadable

