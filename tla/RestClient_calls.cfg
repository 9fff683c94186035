SPECIFICATION Spec
CONSTANTS
    Nil = Nil
    Bodies <- MCBodies
    Payloads <- MCPayloads
CHECK_DEADLOCK FALSE
INVARIANT RequestArrives
INVARIANT ResultIsTheVmms
INVARIANT AnswerIsRead
INVARIANT ValidIsUnderstood
