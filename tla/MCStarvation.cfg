CONSTANTS
    c1 = c1
    c2 = c2
    cli = cli
    slow = slow
    Claims <- MCOneClaim
    Proposals <- MCProposals
    Operators <- MCOperators
    Residents <- MCResidents
    ClaimDrafts <- MCClaimDrafts
    ProposalDrafts <- MCDrainDrafts
    Verdicts <- MCConfirmed
    ReviewStatuses <- MCReject
    DrainLimit = 1
SPECIFICATION StableSpec
PROPERTY ReadyIsClosed
