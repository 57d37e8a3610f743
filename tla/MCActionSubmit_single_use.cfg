SPECIFICATION MCSpec
CONSTANTS
    Callers = {c1, c2}
    Keys = {k1}
    Payloads = {p1}
    Requests <- AnyRequest
    Shares <- AllShare
    Modes = {"confirm"}
    Attempts = {1, 2, 3, 4, 5, 6}
    Challenges = {x1, x2}
    BindsPreview = FALSE
    NoAttempt = NoAttempt
    NoChallenge = NoChallenge
    NoPayload = NoPayload
    Unissued = Unissued
    NoAnswer = NoAnswer
    Refused = Refused
    MaxWindows = 2
    MaxFaults = 3
    MaxGatedFaults = 3
SYMMETRY Symmetry
INVARIANTS
    ChallengeSingleUse
