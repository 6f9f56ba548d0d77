CONSTANT Cases <- MCCases
CONSTANT Labels <- LabelsUnderTest
SPECIFICATION Spec
INVARIANTS
    MandatoryGateNeverLearnedAway
    BlockedWorkIsNeverSilent
    LabelsOnlyTighten
    PersonalValuesAreNeverPublished
    PrivateDeliveryIsAsked
CHECK_DEADLOCK FALSE
