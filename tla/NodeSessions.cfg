\* Two sessions on one camera, a control link that is lost, a capture that ends.
SPECIFICATION Spec
CONSTANTS
    Sess = {s1, s2}
    MaxLinks = 2
    MaxStreams = 2
    MaxFaults = 1
    MayDeactivate = {s1}
    MayFail = {s2}
INVARIANTS TypeOK StreamServed StatusTrue CameraReleased LossNoticed
CHECK_DEADLOCK FALSE
