SPECIFICATION TrafficSpec
CONSTANTS
  n1 = n1
  n2 = n2
  s1 = s1
  s2 = s2
  w1 = w1
  echo = echo
  plugin = plugin
  peer1 = peer1
  peer2 = peer2
  sphinx1 = sphinx1
  sphinx2 = sphinx2
  app1 = app1
  app2 = app2
  Packet <- MCPacket
  NodeIDs = {n1, n2}
  CryptoWorkers = {1, 2}
  EpochLen = 4
  GracePeriod = 2
  NumMixKeys = 3
  UnwrapDelay = 1
  SchedulerSlack = 1
  SendSlack = 1
  SchedulerMaxBurst = 1
  SchedulerQueueSize = 2
  InboundSize = 2
  MaxBatchSize = 2
  MaxQueueSize = 1
  NoPacket = NoPacket
  MixBudgets <- MCMixBudgets
  Sessions = {1, 2}
  Item <- MCItem
  Streams <- MCStreams
  ReceiverSize = 2
  NoItem = NoItem
  GwBudgets <- MCGwBudgets
  Senders = {s1, s2}
  Waiters = {w1}
  PKILoop = PKILoop
  NoCaller = NoCaller
  WaitAttempts = 2
  ClBudgets <- MCClBudgets
  Request <- MCRequest
  BuiltIns = {echo}
  Plugins = {plugin}
  ServiceWorkers = {1, 2}
  ServiceChanSize = 1
  Gens = {1, 2}
  NoRequest = NoRequest
  SvcBudgets <- MCSvcBudgets
  Loop <- MCLoop
  DecoyEpochLen = 2
  DecoySlack = 1
  DecoyBudgets <- MCDecoyBudgets
  ConnPeer <- MCConnPeer
  ListenBudgets <- MCListenBudgets
  SphinxWorkers <- MCSphinx
  InboundCap = 1
  LifeBudgets <- MCLifeBudgets
  Threads = {app1, app2}
  NoThread = NoThread
  SinkCap = 2
  ThinBudgets <- MCThinBudgets
  RouteAuthorities = {1, 2, 3}
  RouteThreshold = 2
  Gateway = 100
  Service = 200
  RoutePeriod = 2
  RouteKeys = 3
  MaxAttempts = 2
  MaxPathAttempts = 2
  RouteBudgets <- MCTopoBudgets
  MaxHash = 999
  ShBudgets <- MCShBudgets
  PrefixLength = 4
  ElementOverhead = 5
  CsBudgets <- MCCsBudgets
INVARIANTS
  PacketsAccounted MixedOnce GatewaySound ConnectionSound ServiceSound DecoySound
  SessionsSound  ThinSound TopologySound RoutesSound ShardingSound StreamSound
PROPERTIES
  DocumentKept NewestWins
CHECK_DEADLOCK FALSE
