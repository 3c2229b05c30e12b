SPECIFICATION CallSpec
CONSTANTS
    c1 = c1
    c2 = c2
    c3 = c3
    RuntimeError = RuntimeError
    Calls = {c1, c2, c3}
    failure_threshold = 2
    recovery_timeout = 1
    half_open_max_calls = 2
    success_threshold = 2
    excluded_exceptions = {RuntimeError}
    Turns = {c1, c2}
    llm_daily_token_quota = 2
    llm_daily_cost_quota_cents = 2
    policy = "fallback"
    MaxTokens = 2
    price = 1
    cent = 2
    MaxFaults = 1
INVARIANT OvershootBounded
INVARIANT UsageAccounted
PROPERTY TurnsReturn
PROPERTY HalfOpenDecides
