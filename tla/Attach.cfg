CONSTANTS
    Absent = Absent
    default = default
    another = another
    SecretName = {default, another}
    DefaultName = default
    Definition <- MCDefinition
    Environment <- MCEnvironment
    FunctionCall <- MCFunctionCall
    Database = {d1, d2}
    AttachCall <- MCAttachCall
    Org <- MCOrg
    Answers <- MCAnswers
    Invalid = {"b-d"}
    Lower <- MCLower
    MaxAttached = 1
SPECIFICATION Spec
SYMMETRY Interchangeable
INVARIANTS TypeOK SecretFits NamedSecretUsed InlineOptionsReachWire
    ColumnsWellFormed TenantIsolation PragmaRefreshesAll
