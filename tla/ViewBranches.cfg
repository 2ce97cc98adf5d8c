CONSTANTS
    Dialects = {{"if"}}
    MaxLines = 5
SPECIFICATION CompilerSpec
INVARIANT UnclosedIsTrue
CHECK_DEADLOCK FALSE
