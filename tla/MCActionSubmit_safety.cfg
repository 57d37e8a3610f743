SPECIFICATION MCSpec
CONSTANTS
    Callers = {c1, c2}
    Keys = {k1}
    Payloads = {p1, p2}
    Requests <- AnyRequest
    Shares <- AllShare
    Modes = {"plain", "confirm", "only"}
    Attempts = {1, 2, 3, 4, 5, 6}
    Challenges = {x1, x2}
    BindsPreview = TRUE
    NoAttempt = NoAttempt
    NoChallenge = NoChallenge
    NoPayload = NoPayload
    Unissued = Unissued
    NoAnswer = NoAnswer
    Refused = Refused
    MaxWindows = 2
    MaxFaults = 2
    MaxGatedFaults = 1
SYMMETRY Symmetry
INVARIANTS
    TypeOK
    AtMostOnce
    AnswersAreEffects
    GatedEffectsConfirmed
    TokenUnspent
PROPERTIES
    CompletedStays
    RefinesSubmitOnce
