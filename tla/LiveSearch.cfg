\* The search box, its requests answered in any order.
SPECIFICATION Spec
CONSTANTS
    Short = {a}
    Long = {ab}
    Tag = {red}
    Slot = {1, 2}
    TagAnswers = {"found", "failed"}
INVARIANTS
    TextNeverStale
    TextIsAnswered
