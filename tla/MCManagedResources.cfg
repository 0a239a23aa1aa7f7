SPECIFICATION FairManagedSpec
CONSTANTS
  DeploymentType = "provider"
  PodMonitors = {}
  ServiceMonitors = {}
  PrometheusRules = {"rules"}
  Entries <- MCEntries
  SourceValues <- MCSourceValues
  Installed <- MCInstalled
  Trimmed <- MCTrimmed
  Left = {"relabelSecret", "kubeRBACConfigMap", "prometheusService", "alertmanager",
          "prometheusProxyPolicy", "ingressPolicy", "cephIngressPolicy",
          "providerAPIServerPolicy", "k8sMetricsServiceMonitor", "ocsInitialization",
          "onboardingSecret", "podMonitors", "serviceMonitors"}
  MaxDisturbances = 2
INVARIANTS
  ManagedTypeOK
  QuiescentMeansMonitored
PROPERTIES
  KeepsMonitors
  EventuallyMonitored
