CONSTANTS
    Sizes = {0, 3, 40, 200}
    Longest = 4
    Histories <- AllHistories
    MaxMessages = 3
    MaxTokens = 60
    PromptSize = 30
    Provider = {"gemini", "groq"}
SPECIFICATION Spec
INVARIANTS
    TypeOK
    LongestEnd
    CountWithinLimit
    ProviderSeesConversation
