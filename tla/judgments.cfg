SPECIFICATION JudgmentsSpec
CONSTANTS
  q1 = q1  q2 = q2  bot = bot  ann = ann  bob = bob  h1 = h1
  Item = {q1, q2}
  Principal = {bot, ann, bob}
  ProposedBy <- ByAnn
  Needs <- TwoEyes
  Handler = {h1}
  MaxCrashes = 1
  MaxPolicies = 1
  Person = {"s", "c", "d"}
  Words <- Names
  Org = {"acme"}
  Suffix <- Suffixes
  Merger = {"scan", "ask"}
  MaxCorefs = 2
  MaxEdges = 1
  Fact = {"f1", "f2", "f3", "n1"}
  SubjectOf <- Subjects
  PropOf <- Says
  TimeOf <- Times
  Opposed = {{"p", "np"}}
  Consolidator = {"tick"}
  Scheduler = "tick"
  MIN_SUBJECTS = 2
  MIN_DISTINCT_TIMES = 2
  MAX_NEW_PATTERNS = 1
  MaxPatterns = 2
  MaxStops = 1
  Claim = {"q", "nq"}
  Negation <- Opposites
  Bare <- BareOf
  Leap = {"like", "prior", "denial"}
  ClaimOf <- Guesses
  SourceOf <- Born
  GeneratorOf <- OneGuesser
  FromPrior = {"prior", "denial"}
  Source = {"like", "prior"}
  Doubter = {"request"}
  MAX_NEW_HUNCHES = 1
  ASK_AFTER_PASSES = 2
  MaxEnds = 1
  MaxVerdicts = 3
  Install = {"x", "y"}
  Runner <- Threads
  Request <- Web
  Pattern = {"p", "q"}
  Banked <- Banks
  Pointed = {"y"}
  Own = {"q"}
  POOLED_MIN_SOURCES = 2
  MaxIds = 2
  MaxMessages = 3
  MaxPulls = 2
  MaxChanges = 0
INVARIANT EnoughApproved
 
INVARIANT CommonsHold
PROPERTY ImplementsSettlement
PROPERTY AskedOnce
PROPERTY PatternsFollow
CHECK_DEADLOCK FALSE
