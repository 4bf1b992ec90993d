SPECIFICATION FieldsSpec
CONSTANTS
    MaxSets = 2
    None = None
    Types = {"u8", "u16", "le16", "be16", "u32", "le32", "be32", "u64", "le64", "be64", "cpi", "rmpp"}
INVARIANTS TypeOK ReadsBack FieldsIndependent FamiliesAgree
PROPERTY SetsOneField
