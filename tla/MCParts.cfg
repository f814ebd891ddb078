SPECIFICATION Spec
CONSTANTS
  Sessions = {"s1", "s2"}
  Events <- MCEvents
  Window = 3
  MaxPerSession = 3
  MaxIngested = 4
  MaxMinutes = 3
  BufferSize = 2
  FlushInterval = 2
  RotateSize = 1
  MaxRetries = 2
  MaxShipped = 4
  MaxSeconds = 3
  Burst = 2
  TokensPerMinute = 25
  MaxClock = 6
  MaxAdmitted = 5
  Callers = {"c1", "c2"}
  Findings = {"pii", "injection"}
  Cooldown = 2
  MaxAlerts = 2
  MaxTime = 3
  Manifests = {"m1", "m2"}
  Interfaces = {"i1", "i2"}
  Capabilities <- MCCapabilities
  Versions = {1, 2}
  NoManifest = "none"
  MaxEdits = 2
  Inputs = {"a", "b"}
  Outputs <- MCOutputs
  BaselineWindow = 5
  MaxRecorded = 7
  Probes <- MCProbes
  ProbeOutputs <- MCProbeOutputs
  MaxProbes = 2
  MaxAnswers = 2
  CallTools <- MCCallTools
  CallServers = {"a", "b"}
  Data = {"d"}
  WindowSize = 3
  MaxCalls = 3
  MaxCallMinutes = 2
  PolicyTools = {"", "search", "exec"}
  Servers = {"", "known", "unknown"}
  Destinations <- MCDestinations
  DangerousTools = {"exec"}
  AllowedServers = {"known"}
  AllowedHosts = {"api"}
  Guarded = {"c1", "c2"}
  MaxContainers = 5
  MaxDepth = 3
  MaxMembers = 2
  Members = {"no_object", "wrong_version", "no_method", "response", "other_method", "bad_params", "bad_name", "bad_arguments", "tools_list", "tools_call"}
CHECK_DEADLOCK FALSE
PROPERTY CorrelationHolds
INVARIANT ShippingHolds
INVARIANT BucketHolds
INVARIANT AlertingHolds
PROPERTY ManifestsHold
INVARIANT DriftHolds
PROPERTY CanaryHolds
PROPERTY SequencesHold
INVARIANT ParityWithRego
INVARIANT GuardHolds
INVARIANT MessagesHold
