SPECIFICATION Spec
CONSTANTS
    w1 = w1  w2 = w2  x1 = x1   s1 = s1  s2 = s2
    None = None
    Workers = {w1, w2}
    Flex <- FlexLabels
    Standard <- StandardLabels
    FlexWindow = 3
    FlexTimeout = 2
    FlexCooldown = 2
    Poll = 1
    StandardTimeout = 1
    StandardCooldown = 1
    MaxAttempts = 2
    Backoff = 1
    ClaudeTimeout = 1
    ClaudeCooldown = 1
    AccountCooldown = 2
    RetryAfters = {0, 2}
    Slots = 2
    JevInterval = 1
    JevTimeout = 2
    JevCooldown = 1
    JevAccountCooldown = 2
    JevRetryAfters = {1, 2}
INVARIANT OutageWaitedOnce
PROPERTIES DelaysHonoured JevPaced CallsEnd
