SPECIFICATION HeadersSpec
CONSTANTS
    Flag = {0, 2}
    MigArg = {0, 2, 256}
    Small <- MCSmall
    Opcode = {129}
    Pkey = {65535}
    Qp <- MCQp
    Start <- MCStart
    Opcodes <- AllOpcodes
    Offsets = {2}
    PayloadSizes = {0, 1, 4}
INVARIANTS HeadersTypeOK SettersIndependent FieldsReadBack PayloadExact
PROPERTY OutsideKept
CHECK_DEADLOCK FALSE
