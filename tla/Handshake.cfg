SPECIFICATION Spec
CONSTANTS
   None = None
   aes = aes
   chacha = chacha
   h3 = h3
   hq = hq
   key1 = key1
   key2 = key2
   CipherSuites = {aes, chacha}
   ClientConfigs <- SomeClients
   ServerConfigs <- SomeServers
   TicketAges = {"fresh", "stale", "expired"}
   MaxConnections = 2
INVARIANTS
   TypeOK
   ErrorsAreDeserved
   KeysAgree
   OutcomesAgree
   EarlyDataCounts
PROPERTIES
   HandshakeSettles
