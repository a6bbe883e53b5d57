SPECIFICATION Spec
CONSTANTS
    Cameras = {c1, c2}
    None = None
PROPERTY NothingDangles
