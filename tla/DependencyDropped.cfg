CONSTANTS
    LastMinor = 2
    Pins <- OneRelease
    Changes <- RestEdits
    Bounds <- OneWithTwo
SPECIFICATION Spec
INVARIANTS EligibleIsPublished
