CONSTANTS
  c1 = c1  c2 = c2  k1 = k1
  ann = ann  bob = bob  five = five  nine = nine  minus = minus  much = much
  nothing = nothing
  Value = {ann, bob, five, nine, minus, much, nothing}
  Decimal = {five, nine, minus}
  Money = {five, nine}
  Nothing = nothing
  Call = {c1, c2}
  Key = {k1}
  Text <- Texts
  Review <- ReviewsAsked
  ModelDecisions <- Decisions
  Thresholds = {95}
SPECIFICATION FairSpec
INVARIANTS TypeOK OnlyWordsAreDone RetriesAreReplayed SpecialistVerdicts
PROPERTIES ImplementsTurnContract EveryCallEnds
