SPECIFICATION FairSpec
CONSTANTS
    Texts <- MCTexts
    Atoi <- MCAtoi
    Phones <- MCPhones
    Mixes <- MCMixes
    Probed = {9}
    Addresses <- MCAddresses
    ProbeAddress <- MCProbeAddress
    Tokens <- MCTokens
    Window = 3
    RetryFor = 1
    MaxDelay = 1
    Deadline = 1
    MaxStart = 1
    MaxTime = 3
    MaxLives = 2
INVARIANTS TypeOK AnswersOwnRequest SameAnswer HandledOncePerLife
PROPERTY ProbeDecides
CHECK_DEADLOCK FALSE
