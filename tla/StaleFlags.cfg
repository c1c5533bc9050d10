SPECIFICATION HeaderSpec
INVARIANT FlagsAreOfTheFrame
