\* Three directions, six blocks.
SPECIFICATION FadeSpec
CONSTANTS
    Places = {p1, p2, p3}
    MaxBlocks = 6
INVARIANT TransitionsContinuous
