SPECIFICATION Spec
CONSTANTS
    Policy <- ThePolicy
    Rules <- TheRules
    Markets <- TheMarkets
    Drafts <- ListedDrafts
    Payload <- ThePayload
    Names = {1, 2}
    Legacy <- TheLegacy
    FirstDay = 1000
    LastDay = 1003
CONSTRAINT DossierScenario
PROPERTY FrozenIsValidated
CHECK_DEADLOCK FALSE
