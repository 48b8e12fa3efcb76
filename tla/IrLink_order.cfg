CONSTANTS
  Peers = {a, b}
  Nobody = nobody
  MayListen = {a}
  MayConnect = {b}
  MayStop = {}
  MaxConns = 1
  MaxBytes = 3
  WireLimit = 1
  RecvMax = 1
  RxLimit = 1
  TxLimit = 2
  QueueLimit = 1
SPECIFICATION Spec
INVARIANTS TypeOK InOrder RxNeverFull
