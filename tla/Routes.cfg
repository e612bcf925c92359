SPECIFICATION RoutesSpec
CONSTANTS
  Nil = Nil
  Req = {r1, r2}
  Object = {o1, o2}
  WebOptions <- AppOptions
  WebControllers <- AppControllers
  WebScope <- AppScope
  WebGlobal <- AppGlobal
  WebAsk <- AppAsk
  Documented = {"jwt"}
  Ask <- FastAsk
  Params <- FastParams
  Controllers <- FastControllers
  Scope <- FastScope
  Global <- FastGlobal
  Outcomes <- FastOutcomes
  KeySize = 3
  SigningKey = TRUE
  Logging = TRUE
  MaxCapacity = 1
INVARIANTS
   InputsAreChecked 
  ServedByItsRoute ChainIsOwn HandlerSeesOwnContext 
CHECK_DEADLOCK FALSE
