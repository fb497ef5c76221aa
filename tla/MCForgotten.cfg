CONSTANTS
    c1 = c1
    c2 = c2
    cli = cli
    slow = slow
    Claims <- MCOneClaim
    Proposals <- MCProposals
    Operators <- MCOperators
    Residents <- MCResidents
    ClaimDrafts <- MCClaimDrafts
    ProposalDrafts <- MCForgetDrafts
    Verdicts <- MCVerdicts
    ReviewStatuses <- MCReject
    DrainLimit = 2
SPECIFICATION Spec
PROPERTY ForgottenNotRecalled
