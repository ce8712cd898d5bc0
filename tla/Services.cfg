CONSTANTS
  LogCalls = {c1, c2, c3, c4}
  Subjects = {i}
  InspectionSubjects = {i}
  MaxActionsRead = 2
  Seeders = {s1, s2}
  Refreshers = {p1, p2}
  Gradient <- MCGradient
  Threshold = 12
  Rains <- MCRains
  PublicRequests = {r1, r2}
  Limit = 2
  Window = 2
  Production = TRUE
  Loaders = {l1, l2}
  Deployments <- MCDeployments
  Hubs <- MCHubs
  Others = 2
  ListLimit = 2
  Routes <- MCRoutes
  NetworkOf <- MCNetworkOf
  IndexOf <- MCIndexOf
  Seconds <- MCSeconds
  WeightLimit <- MCWeightLimit
  Required = 16
  Trips = {"t1"}
  Events = {e1, e2}
  PlansOf <- MCPlansOf
  Through = {"direct", "valley"}
  Places = {"jowai", "ladrymbai", "silchar"}
  Beyond <- MCBeyond
  Due <- MCDue
  Distance <- MCDistance
  Ingestions = {"imd", "correction", "early"}
  FileEdges <- MCFileEdges
  FileDay <- MCFileDay
  FileRain <- MCFileRain
  IndexDays = 3
  DecayOf <- MCDecay
  Elevations <- MCElevations
  EdgeLength <- MCEdgeLength
  Passes = {q1, q2}
  FreshDays = 1
  BoxCount = 3
  Spans <- MCSpans
  Confidences = {20, 60, 90}
  MinConfidence = 25
  MaxOverlap = 45
  StopCount = 3
  VehicleCount = 2
  Demands = {9, 24, 50}
  Capacities = {35, 60}
  Weights = {12, 40}
  Hours = {5, 20}
  MaxListed = 2
SPECIFICATION Spec
CHECK_DEADLOCK FALSE
INVARIANTS
  InspectionsAreOrderly
  AssessmentsAreSound
  PublicAccessIsSound
  LoadedDataIsSound
  ReachabilityIsTrue
  ImpactsAreSound
  FeaturesAreSound
  IndexIsMoisture
  DetectionIsSound
  PlansAreSound
  VerdictsAreSound
PROPERTIES
  NothingIsUndone
  BlockedClientsRecover
