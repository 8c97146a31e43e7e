SPECIFICATION Spec
CONSTANTS
    Uids = {0, 1, 2}
    Gids = {0, 1}
    Bits = {0, 1, 2, 4, 5, 7, 8, 11}
INVARIANT WriteNeedsExecute
