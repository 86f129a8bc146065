SPECIFICATION Spec
CONSTANTS
    Kinds <- FileKinds
    Traits <- FileTraits
    Vocabulary <- LineVocabulary
    Notes <- FileNotes
    MaxLines <- FileLines
INVARIANTS Catalogued SafetyDocsOwn ConfigsAgree NegationIsLocal
    PythonLinesAreCode StatementsAreExecuted EvidenceIsWhole WriteRulesAgree
PROPERTIES  RemarksAreNotCode
CHECK_DEADLOCK FALSE
