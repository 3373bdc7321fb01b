\* owe's rules, asked one question at a time.
SPECIFICATION Spec
CONSTANTS
    U32 = 1000
    ENV <- Env
INVARIANT SectionsByTheBook
INVARIANT AcceptedIsUsable
INVARIANT WishesMeanTheSame
INVARIANT PicturesKeepTheirPromise
CHECK_DEADLOCK FALSE
