SPECIFICATION Spec
CONSTANTS
    u1 = u1
    u2 = u2
    u3 = u3
    Uploads <- MCUploads
    FailureThreshold = 3
    HalfOpenSuccessCount = 1
    HalfOpenMaxInFlight = 1
    MaxAttempts = 3
INVARIANT SlotIsReleased
