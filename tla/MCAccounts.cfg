SPECIFICATION FairSpec
CONSTANTS
  ada = ada
  bob = bob
  t1 = t1
  t2 = t2
  c1 = c1
  c2 = c2
  chrome = chrome
  User = {ada, bob}
  Starts <- Situations
  Bootstrap = ada
  Tab = {t1, t2}
  Browser = {chrome}
  BrowserOf <- OneBrowser
  Person <- AdasBrowser
  Call = {c1, c2}
  Session = {s1, s2, s3}
  MaxFailures = 1
  None = None
INVARIANTS
  TypeOK
  SessionsFollowThePassword
PROPERTIES
  AdminsGoByStaleReads
  SignedOutWithoutASession
  TabsSettle
  CallsAreAudited
  PowerLapses
