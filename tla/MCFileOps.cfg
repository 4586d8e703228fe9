CONSTANTS
  f1 = f1
  a = a
  b = b
  File <- OneFile
  Name <- Names
  Mode <- Modes
  Kinds <- AllKinds
  Disks <- StartDisks
  Size <- Sizes
  Count <- Counts
  Word = 3
  Sign = 2
  Misread <- Words
  Positions <- SeekTo
  MaxLen = 2
  MaxPos = 3
  MaxFd = 2
  Nil = Nil
SPECIFICATION Spec
INVARIANTS TypeOK DescriptorsAccounted ReadsWhatIsThere ShortReadIsTheEnd WritesWhatWasGiven AnswerIsHonest HandleStaysHome FatalHasACause
PROPERTIES WriteProtected ImplementsReference
