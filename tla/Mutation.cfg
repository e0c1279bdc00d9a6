SPECIFICATION Spec
CONSTANT MaxDelay = 2
INVARIANT TimesAreAhead
PROPERTIES MutationsKeepComing CopyErrorsKeepComing
