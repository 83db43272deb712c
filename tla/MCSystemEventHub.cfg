SPECIFICATION Spec
CONSTANTS
    Types <- MCTypes
    Supers <- MCSupers
    Consumers <- MCConsumers
    TypeOf <- MCTypeOf
    None = None
    Threads = {p, q}
    Operations = {"subscribe", "unsubscribe", "publish", "clear"}
    MaxCalls = 5
INVARIANTS NoLateDelivery ReachedIfSerial
CHECK_DEADLOCK FALSE
