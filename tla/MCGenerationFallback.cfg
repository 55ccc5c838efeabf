SPECIFICATION Spec
CONSTANTS
    groq = groq
    openai = openai
    m1 = m1
    m2 = m2
    Models = {m1, m2}
    Providers = {groq, openai}
    ProviderOf <- MCProviderOf
    TakesTools = {groq}
    MaxAttempts = 2
    Requests = {r1, r2}
    NoModel = NoModel
    MaxContinuations = 2
INVARIANT FallbackServes
SYMMETRY Symmetry
CHECK_DEADLOCK FALSE
