SPECIFICATION ExploredSpec
CONSTANTS
    r1 = r1
    r2 = r2
    Replacements <- MCReplacements
    MaxAmendFaults = 2
    MaxAmendCommands = 3
    MaxEdits = 2
    MaxScopeFaults = 1
    MaxResumes = 2
    MaxAttempts = 2
    MaxChunks = 2
    MaxChanges = 3
    MaxBeats = 3
    Proposals <- MCProposals
    Defective = {"d"}
    MaxNodeCalls = 6
    MaxFaults = 2
    ConstraintIds = {"c1", "c2"}
    ObligationIds = {"o1"}
    Units = {"u1", "u2"}
    Drafts <- MCDrafts
    MaxPrepares = 2
    MaxOperatorSteps = 3
    MaxKills = 2
    MaxGitFaults = 1
    Anchor = "root"
    Kids <- MCKids
    MaxCandidateNodes = 3
    MaxSessions = 2
    MaxReviewFaults = 1
    FirstUnits = {"u1", "u2", "u3"}
    FirstPlans <- MCPlans
    Checkpoints = {"k1", "k2"}
    Owners <- MCOwners
    FreshUnits <- MCFresh
    MaxSplit = 2
    Bases = {1, 2}
    Questions = {"q1", "q2"}
    Needs <- MCNeeds
    FollowUps <- MCFollowUps
    Vague = {"q2"}
    MaxTurns = 4
    Explored = {"candidate"}
INVARIANTS
    RejectionsAreReviewed
    AskedOncePerGate
    
    EvidenceIsReproducible
CHECK_DEADLOCK FALSE
