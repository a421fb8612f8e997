CONSTANTS
    Topics = {a, b}
    NoTopic = NoTopic
    Known = {a}
    Questions <- MCQuestions
    Clients = {{"context"}, {"history"}, {"context", "history"}}
    WindowTurns = 2
    BudgetTurns = 2
    MaxTurns = 2
    Deployments <- MCDeployments
    PatternSets <- MCPatternSets
    MaxVariants = 3
    MaxAttempts = 3
SPECIFICATION Spec
INVARIANT FollowsLatestSubject
INVARIANT RewrittenFromConversation
INVARIANT ScopeKept
INVARIANT QueriesSound
INVARIANT OrphansOnlyAfterFailure
