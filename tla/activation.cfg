SPECIFICATION Spec
CONSTANTS
    gift = gift
    plastic = plastic
    p1 = p1
    Activations = {gift, plastic}
    CardType <- MCCardType
    UserOf <- MCUserOf
    PollQueries <- MCPollQueries
    Pollers = {p1}
    NilRequest = NilRequest
    MaxAttempts = 2
    MaxPolls = 1
INVARIANTS TypeOK ExactlyOneResult OneOrderPerActivation BeliefsAreTrue RejectedNotListed
CHECK_DEADLOCK FALSE
