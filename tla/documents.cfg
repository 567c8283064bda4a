SPECIFICATION Spec
CONSTANTS
    Spelled <- Spellings
    Counting = {"count", "item_count"}
    Inputs <- AllInputs
    Order <- TwoPositions
    Texts = {"a", "b", "shell", "PRIMARY", "SECONDARY", "text"}
    Odd = {"null", "decimal"}
    Null = "null"
INVARIANTS TypeOK EveryNumberServed MembersTold RegistryAccepts CallerLabelsKept DiesOfNoNumber
