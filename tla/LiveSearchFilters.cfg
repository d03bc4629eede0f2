\* Filters changed while answers are on their way.
SPECIFICATION Spec
CONSTANTS
    Short = {a}
    Long = {ab}
    Tag = {red, blue}
    Slot = {1, 2}
    TagAnswers = {"found", "failed"}
INVARIANTS
    FiltersRespected
