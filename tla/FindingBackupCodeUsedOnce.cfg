\* Two requests with one backup code.
CONSTANTS
    Envelopes = {"data"}
    IdForms = {"bytes"}
    CodeNumbers = {1}
    MaxFactorSaves = 3
    MaxPageSaves = 1
    MaxChallenges = 1
    MaxFactorCalls = 2
SPECIFICATION SecondFactorSpec
INVARIANT BackupCodeUsedOnce
CHECK_DEADLOCK FALSE
