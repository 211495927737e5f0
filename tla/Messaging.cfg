SPECIFICATION MCSpec
CONSTANTS
  m1 = m1
  m2 = m2
  m3 = m3
  copy = copy
  t1 = t1
  c1 = c1
  c2 = c2
  Tenants = {t1, t2}
  Global = Global
  Pruner = Pruner
  NoMessage = NoMessage
  Home <- Homes
  Configs <- Queues
  Users = {"a", "b"}
  Plans <- TwoCallers
  MaxDials = 3
  Publishes = {"m1", "m2"}
  Setups <- Publishers
  MaxChannels = 3
  maxAttempts = 1
  Hooks <- Events
  maxRetries = 1
  tolerance = 1
  MaxAge = 2
INVARIANTS DeadLettersSound BrokerSound WebhookSound
PROPERTY MessagingSettles
CHECK_DEADLOCK FALSE
