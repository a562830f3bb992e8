CONSTANTS
  sale = sale
  saleRetry = saleRetry
  other = other
  reused = reused
  callback = callback
  Mutations = {sale, reused}
  Saves = {callback}
  KeyOf <- MCKeyOf
  BodyOf <- MCBodyOf
  Entities <- MCEntities
  Values <- MCValues
  Absent <- MCAbsent
  Mutate <- MCMutate
SPECIFICATION Spec
CHECK_DEADLOCK FALSE
INVARIANTS RevisionCountsCommits AnswersAreTrue
