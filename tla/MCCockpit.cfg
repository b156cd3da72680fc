CONSTANTS
    Seconds = 2
    MaxStarts = 2
    MaxDeeds = 2
    Handlers = {h1, h2}
    Keys = {"provider", "base_url"}
SPECIFICATION CockpitSpec
INVARIANTS AnswersAreTrue DoneIsTrue
PROPERTY RunSettled
