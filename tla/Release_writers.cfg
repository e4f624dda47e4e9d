CONSTANTS
    Supervisors = {u1, u2}
    Releases = {r1, r2}
    NoRelease = NoRelease
    Nobody = Nobody
    MaxKills = 1
SPECIFICATION ReleaseSpec
INVARIANT OneWriterGroup
CHECK_DEADLOCK FALSE
