SPECIFICATION Spec
CONSTANT MaxFd = 2
INVARIANT AtMostOneClient
