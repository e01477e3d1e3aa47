SPECIFICATION MCSpec
CONSTANTS
  Builds = {b1, b2}
  ECR = ecr
  Quay = quay
  GCR = gcr
  Hub = hub
  Other = other
  Requests <- MCRequests
  HostOf <- MCHostOf
  MaxCommits = 2
  NotSet = NotSet
  Invalid = Invalid
  MaxResources <- MCMaxResources
  DefaultResources <- MCDefaultResources
SYMMETRY BuildSymmetry
INVARIANTS AcceptedIsAllowed AdmittedUnlessLimitOnly SkippedIsThere SuccessIsThere ShaTagUnlessMoved
CHECK_DEADLOCK FALSE
