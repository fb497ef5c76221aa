CONSTANTS
    c1 = c1
    c2 = c2
    cli = cli
    slow = slow
    Claims <- MCClaims
    Proposals <- MCProposals
    Operators <- MCOperators
    Residents <- MCResidents
    ClaimDrafts <- MCCloudOnly
    ProposalDrafts <- MCProposalDrafts
    Verdicts <- MCVerdicts
    ReviewStatuses <- MCReopen
    DrainLimit = 2
SPECIFICATION Spec
INVARIANT TypeOK
INVARIANT DurableNeedsTrust
INVARIANT AppliedPromotionsHold
PROPERTY DecayIsConfirmed
PROPERTY Refinement
