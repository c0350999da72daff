\* Up to six fields behind each prefix; a group holds at most two entries.
SPECIFICATION Spec
CONSTANTS
  Headers <- MCHeaders
  Alphabet <- MCAlphabet
  MaxMore = 6
  MaxFields = 12
  MaxGroup = 2
  Books <- MCBooks
INVARIANT DecodesAsSpecified
\* Decoding ends.
CHECK_DEADLOCK FALSE
