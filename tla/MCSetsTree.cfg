CONSTANTS
    Program <- SiblingPrograms
    Structures = {"NatarajanTree"}
    Variants = {TRUE}
SPECIFICATION Spec
INVARIANT Linearizable
