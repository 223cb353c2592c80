\* One request attempt beside a short run of every kind of mix.
CONSTANTS
  Methods = {GET}
  Requests = {q1}
  Statuses = {"success", "server error"}
  MaxFrames = 1
  Mixes <- CatalogMixes
  MaxTime = 3
  MaxCalls = 2
SPECIFICATION Spec
INVARIANTS TypeOK SuccessIsPublishable AttemptsAccounted
