SPECIFICATION Spec
CONSTANTS
  ListMax = 2
  SearchMax = 2
  Byte = 4
  Objects = {"o1", "o2"}
  WithItems = {"o1"}
  Walks <- MCWalks
  Searches <- MCSearches
  Counters <- MCCounters
  Submissions <- MCSubmissions
  Macs <- MCMacs
  Ciphers <- MCCiphers
  NibbleBits = 1
  BlockLen = 2
  Reduction <- MCReduction
  Enc <- MCEnc
INVARIANTS WalkFaithful SearchAnswers CounterShown SubmitAnswers LrpAsSpecified LrpDecrypts
