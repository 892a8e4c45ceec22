SPECIFICATION Spec
CONSTANTS
    ByteValues = 4
    NRegs = 32
    WordBits = 8
    Ways = 8
    Words <- MCWords
    Instructions <- MCInstructions
INVARIANTS BitsMatch ComparisonsAgree EncodedIsDecoded DecodedIsEncoded PipelineViewAgrees RecentSurvive MissesReplaceAll
CHECK_DEADLOCK FALSE
