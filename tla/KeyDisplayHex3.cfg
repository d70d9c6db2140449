SPECIFICATION Spec
CONSTANT KeyBytes = {0, 4, 5, 6, 7, 9, 11, 12, 40, 42, 44, 57, 79, 80, 81, 82, 101, 255}
INVARIANT KeycodeReadsBack
