CONSTANT Users = 2
SPECIFICATION RPCSpec
INVARIANT EveryCallLogged
